---- MODULE Spec2Model ----
(***************************************************************************)
(* A model of the libtins protocol-unit codecs: the IP header with its     *)
(* option list (src/src/ip.cpp), the EAPOL header family                   *)
(* (src/src/eapol.cpp) and the checksum primitive (src/src/utils.cpp).     *)
(*                                                                         *)
(* Buffers are sequences of bytes (index 1 is offset 0).  Multi-byte       *)
(* header fields of the IP header are kept as the value their bytes have   *)
(* on the wire (big-endian), which is what the setters' host_to_be and the *)
(* getters' be_to_host make of them on either host byte order.             *)
(***************************************************************************)
EXTENDS Integers, Sequences, FiniteSets, TLC

VARIABLES
    ip,      \* the crafted IP object: _ip fields, _ip_options, sizes, inner_pdu
    buf,     \* the caller's buffer handed to write_serialization / a decoder
    ser,     \* arguments of the last IP::write_serialization call
    dec,     \* result of the last IP(buffer, total_sz) construction
    cloned,  \* result of the last IP::clone_packet call
    phase,   \* position of the driver: "craft", "serialized", "decoded", ...
    le,      \* whether the build's host is little-endian
    rc4,     \* the crafted RC4EAPOL object: EAPOL::_header, _header, _key
    rsn,     \* the crafted RSNEAPOL object: EAPOL::_header, _header, _key
    last,    \* the setter last called on the RSNEAPOL object and its argument
    eres,    \* result of the last EAPOL decode (constructor or from_bytes)
    wire     \* the RSN frame as first received, before any decode

vars == <<ip, buf, ser, dec, cloned, phase, le, rc4, rsn, last, eres, wire>>
ipvars == <<ip, ser, dec, cloned>>
eapvars == <<le, rc4, rsn, last, eres, wire>>

-----------------------------------------------------------------------------
(* Bounds of the model *)

\* most options appended to one crafted header
MaxOpts == 2
\* most data bytes handed to one set_option call
MaxData == 1
\* bytes the caller's buffer may hold beyond header and nested unit
MaxSlack == 1
\* most bytes of a key, of a serialized RSN information element, and of the
\* bytes that follow the fixed body in an EAPOL input buffer
MaxKey == 2

-----------------------------------------------------------------------------
(* Program constants *)

\* sizeof(iphdr)
IPHDR == 20
\* IP::DEFAULT_TTL
DEFAULT_TTL == 128
\* protocol numbers the constructor dispatches on
IPPROTO_IP == 0
IPPROTO_ICMP == 1
IPPROTO_IPIP == 4
IPPROTO_TCP == 6
IPPROTO_UDP == 17
\* option numbers of IP::Option used by the setters
END == 0
NOOP == 1
SEC == 2
\* option class IP::CONTROL
CONTROL == 0
\* sizeof(eapolhdr): version, packet_type, length, type
EAPOLHDR == 5
\* sizeof(RC4EAPOL::_header) and sizeof(RSNEAPOL::_header)
RC4HDR == 43
RSNHDR == 94
\* EAPOL::EAPOLTYPE
RC4 == 1
RSN == 2
EAPOL_WPA == 254
\* the packet type the variants' constructors pass to EAPOL(packet_type, type)
EAPOL_KEY == 3
\* Dot11::RSN, the tag of the RSN information element
DOT11_RSN == 48
\* the key length RSNEAPOL::write_body writes for a raw key
RSN_KEY_LENGTH == 32

\* Option numbers whose second byte is a length (the case labels of the
\* decoder: SEC, LSSR, TIMESTAMP, EXTSEC, RR, SID, SSRR, MTUPROBE, MTUREPLY,
\* EIP, TR, ADDEXT, RTRALT, SDB, DPS, UMP, QS).
MultiByteNumbers == {2, 3, 4, 5, 7, 8, 9, 11, 12, 17, 18, 19, 20, 21, 23, 24, 25}

-----------------------------------------------------------------------------
(* Bytes and words *)

Hi(w) == (w \div 256) % 256
Lo(w) == w % 256
Word(hi, lo) == hi * 256 + lo

Zeros(n) == [i \in 1..n |-> 0]

\* The byte at offset i of buffer b.  An offset outside the buffer is a read
\* of memory the buffer does not own; it is given the value 170 here and the
\* safety properties below show the decoder never performs such a read.
ByteAt(b, i) == IF i >= 0 /\ i < Len(b) THEN b[i + 1] ELSE 170

\* bytes [from, from + n) of b
Slice(b, from, n) == [i \in 1..n |-> ByteAt(b, from + i - 1)]

RECURSIVE Flatten(_)
Flatten(ss) == IF ss = <<>> THEN <<>> ELSE Head(ss) \o Flatten(Tail(ss))

-----------------------------------------------------------------------------
(* Utils::do_checksum *)

\* while(ptr < last) checksum += host_to_be(*(ptr++)): the 16-bit words of
\* b[0 .. 2*n) read in memory order and converted, i.e. as big-endian words.
RECURSIVE SumWords(_, _)
SumWords(b, n) ==
    IF n = 0 THEN 0
    ELSE SumWords(b, n - 1) + Word(ByteAt(b, 2 * n - 2), ByteAt(b, 2 * n - 1))

\* a faulty variant: the words summed in little-endian order
do_checksum_noswap(b) ==
    LET odd == (Len(b) % 2) = 1
        RECURSIVE S(_)
        S(n) == IF n = 0 THEN 0
                ELSE S(n - 1) + Word(ByteAt(b, 2 * n - 1), ByteAt(b, 2 * n - 2))
    IN S(Len(b) \div 2) + (IF odd THEN ByteAt(b, Len(b) - 1) * 256 ELSE 0)

do_checksum(b) ==
    LET odd == (Len(b) % 2) = 1
        nwords == Len(b) \div 2
        padding == IF odd THEN ByteAt(b, Len(b) - 1) * 256 ELSE 0
    IN SumWords(b, nwords) + padding

-----------------------------------------------------------------------------
(* IP::IPOption *)

\* the type byte: copied:1, op_class:2, number:5
TypeByte(t) == t.copied * 128 + t.op_class * 32 + t.number
TypeOf(byte) == [copied |-> byte \div 128, op_class |-> (byte \div 32) % 4,
                 number |-> byte % 32]

\* IPOption::write: the type byte, then optional_data
OptionWrite(o) == <<TypeByte(o.type)>> \o o.optional_data

-----------------------------------------------------------------------------
(* The crafted object *)

NoInner == [present |-> FALSE, flag |-> 0, size |-> 0]

\* IP::init_ip_fields, then the constructor's dst_addr / src_addr
init_ip_fields ==
    [version |-> 4, ihl |-> 0, tos |-> 0, tot_len |-> 0, id |-> 1,
     frag_off |-> 0, ttl |-> DEFAULT_TTL, protocol |-> 0, check |-> 0,
     saddr |-> <<0, 0, 0, 0>>, daddr |-> <<0, 0, 0, 0>>,
     options |-> <<>>, options_size |-> 0, padded_options_size |-> 0,
     inner |-> NoInner]

IPCraft(dst, src, child) ==
    [init_ip_fields EXCEPT !.daddr = dst, !.saddr = src, !.inner = child]

\* IP::set_option(copied, op_class, number, data, data_size)
set_option(o, copied, op_class, number, data) ==
    LET data_size == Len(data)
        optional_data == IF data_size # 0
                         THEN <<data_size % 256>> \o data ELSE <<>>
        option == [type |-> [copied |-> copied, op_class |-> op_class,
                             number |-> number],
                   optional_data |-> optional_data]
        osz == o.options_size + 1
               + (IF optional_data # <<>> THEN data_size + 1 ELSE 0)
        padding == osz % 4
    IN [o EXCEPT !.options = Append(@, option),
                 !.options_size = osz,
                 !.padded_options_size =
                     IF padding # 0 THEN osz - padding + 4 ELSE osz]

\* IP::header_size
header_size(o) == IPHDR + o.padded_options_size

\* the 20 bytes of the iphdr struct as memcpy lays them out
HeaderBytes(o) ==
    <<o.version * 16 + o.ihl, o.tos, Hi(o.tot_len), Lo(o.tot_len),
      Hi(o.id), Lo(o.id), Hi(o.frag_off), Lo(o.frag_off),
      o.ttl, o.protocol, Hi(o.check), Lo(o.check)>> \o o.saddr \o o.daddr

\* (uint16_t)~checksum
Complement16(c) == 65535 - (c % 65536)

\* buffer with ((iphdr*)buffer)->check = host_to_be<uint16_t>(v)
WithCheck(b, v) == [b EXCEPT ![11] = Hi(v), ![12] = Lo(v)]

-----------------------------------------------------------------------------
(* IP::write_serialization(buffer, total_sz, parent) *)

\* The object after the call: protocol taken from the nested unit's flag,
\* tot_len(total_sz) through its uint16_t parameter, head_len(my_sz / 4)
\* through the 4-bit ihl field.
\* a faulty variant: tot_len taken from header_size() alone
SerializedObject_hdrlen(o, total_sz) ==
    LET my_sz == header_size(o)
    IN [o EXCEPT !.tot_len = my_sz % 65536, !.ihl = (my_sz \div 4) % 16]

SerializedObject(o, total_sz) ==
    LET my_sz == header_size(o)
        new_flag == IF o.inner.flag = IPPROTO_IP THEN IPPROTO_IPIP
                    ELSE o.inner.flag
        o1 == IF o.inner.present THEN [o EXCEPT !.protocol = new_flag % 256]
              ELSE o
    IN [o1 EXCEPT !.tot_len = total_sz % 65536,
                  !.ihl = (my_sz \div 4) % 16]

\* The bytes of the caller's buffer after the call.  The call writes the
\* first header_size() bytes; the rest of the total_sz bytes belongs to the
\* nested unit and is left as it was (zero here).
\* while (checksum >> 16) checksum = (checksum & 0xffff) + (checksum >> 16)
RECURSIVE FoldChecksum(_)
FoldChecksum(c) ==
    IF c \div 65536 # 0 THEN FoldChecksum((c % 65536) + (c \div 65536)) ELSE c

SerializedBytes(o, total_sz, parent) ==
    LET my_sz == header_size(o)
        o2 == SerializedObject(o, total_sz)
        opts == Flatten([i \in 1..Len(o2.options) |-> OptionWrite(o2.options[i])])
        written == HeaderBytes(o2) \o opts
                   \o Zeros(o2.padded_options_size - o2.options_size)
        checksum == FoldChecksum(do_checksum(SubSeq(written, 1, my_sz)))
        own == IF parent /\ o2.check = 0
               THEN WithCheck(written, Complement16(checksum))
               ELSE written
    IN own \o Zeros(total_sz - my_sz)

-----------------------------------------------------------------------------
(* IP::IP(const uint8_t *buffer, uint32_t total_sz) *)

DecodeError(reads) ==
    [status |-> "error", hdr |-> <<>>, options |-> <<>>, options_size |-> 0,
     padded_options_size |-> 0, inner |-> NoInner, inner_at |-> 0,
     reads |-> reads]

NoDecode ==
    [status |-> "none", hdr |-> <<>>, options |-> <<>>, options_size |-> 0,
     padded_options_size |-> 0, inner |-> NoInner, inner_at |-> 0,
     reads |-> {}]

\* if(buffer - ptr_buffer < data_size) throw: whether data_size bytes from
\* the length byte at p1 stay before the header boundary end
\* a faulty variant: no check at all
DataFits_unchecked(end, p1, data_size) == TRUE

DataFits(end, p1, data_size) == ~(end - p1 < data_size)

\* One pass of the option loop from offset ptr up to the header boundary
\* end; st carries the options read so far, _options_size and the offsets
\* the loop has read.
RECURSIVE ParseOptions(_, _, _, _)
ParseOptions(b, ptr, end, st) ==
    IF ~(ptr < end) THEN st
    ELSE
      LET r0 == st.reads \cup {ptr}
          tb == ByteAt(b, ptr)
      IN IF tb = 0 THEN [st EXCEPT !.reads = r0]
         ELSE
           LET p1 == ptr + 1
               type == TypeOf(tb)
           IN IF type.number \in MultiByteNumbers
              THEN
                IF p1 = end THEN [st EXCEPT !.err = TRUE, !.reads = r0]
                ELSE
                  LET r1 == r0 \cup {p1}
                      lenb == ByteAt(b, p1)
                      data_size == (lenb + 255) % 256
                  IN IF lenb = 0 THEN [st EXCEPT !.err = TRUE, !.reads = r1]
                     ELSE IF data_size > 0 /\ ~DataFits(end, p1, data_size)
                     THEN [st EXCEPT !.err = TRUE, !.reads = r1]
                     ELSE
                       LET od == IF data_size > 0
                                 THEN Slice(b, p1, data_size) ELSE <<>>
                           r2 == r1 \cup {p1 + i : i \in 0..(Len(od) - 1)}
                       IN ParseOptions(b, p1 + Len(od), end,
                            [st EXCEPT
                               !.opts = Append(@, [type |-> type,
                                                   optional_data |-> od]),
                               !.size = @ + Len(od) + 1,
                               !.reads = r2])
              ELSE ParseOptions(b, p1, end,
                     [st EXCEPT
                        !.opts = Append(@, [type |-> type,
                                            optional_data |-> <<>>]),
                        !.size = @ + 1,
                        !.reads = r0])

\* the nested unit the constructor builds from the bytes after the header
InnerKind(protocol) ==
    IF protocol = IPPROTO_TCP THEN "TCP"
    ELSE IF protocol = IPPROTO_UDP THEN "UDP"
    ELSE IF protocol = IPPROTO_ICMP THEN "ICMP"
    ELSE "RawPDU"

\* The constructor on the first total_sz bytes of b.  innerOk tells whether
\* the nested unit's own constructor (TCP, UDP, ICMP, RawPDU: not part of
\* this code) accepts its bytes; when it throws, so does this constructor.
\* a faulty variant: the constructor without the "Malformed head len" check
DecodeIP_nominlen(b, total_sz, innerOk) ==
    IF total_sz < IPHDR THEN DecodeError({})
    ELSE
      LET hl == (ByteAt(b, 0) % 16) * 4
      IN IF total_sz < hl THEN DecodeError({})
         ELSE
           LET p == ParseOptions(b, IPHDR, hl,
                        [err |-> FALSE, opts |-> <<>>, size |-> 0, reads |-> {}])
               rest == total_sz - hl
           IN IF p.err THEN DecodeError(p.reads)
              ELSE IF rest > 0 /\ ~innerOk THEN DecodeError(p.reads)
              ELSE [status |-> "ok", hdr |-> Slice(b, 0, IPHDR),
                    options |-> p.opts, options_size |-> p.size,
                    padded_options_size |-> hl - IPHDR,
                    inner |-> IF rest > 0
                              THEN [present |-> TRUE,
                                    flag |-> ByteAt(b, 9), size |-> rest]
                              ELSE NoInner,
                    inner_at |-> hl, reads |-> p.reads]

DecodeIP(b, total_sz, innerOk) ==
    IF total_sz < IPHDR THEN DecodeError({})
    ELSE
      LET hl == (ByteAt(b, 0) % 16) * 4
      IN IF total_sz < hl THEN DecodeError({})
         ELSE IF hl < IPHDR THEN DecodeError({})
         ELSE
           LET p == ParseOptions(b, IPHDR, hl,
                        [err |-> FALSE, opts |-> <<>>, size |-> 0, reads |-> {}])
               rest == total_sz - hl
           IN IF p.err THEN DecodeError(p.reads)
              ELSE IF rest > 0 /\ ~innerOk THEN DecodeError(p.reads)
              ELSE [status |-> "ok", hdr |-> Slice(b, 0, IPHDR),
                    options |-> p.opts, options_size |-> p.size,
                    padded_options_size |-> hl - IPHDR,
                    inner |-> IF rest > 0
                              THEN [present |-> TRUE,
                                    flag |-> ByteAt(b, 9), size |-> rest]
                              ELSE NoInner,
                    inner_at |-> hl, reads |-> p.reads]

\* getters of a decoded header
DecIhl(d) == d.hdr[1] % 16
DecVersion(d) == d.hdr[1] \div 16
DecTotLen(d) == Word(d.hdr[3], d.hdr[4])
DecProtocol(d) == d.hdr[10]
DecCheck(d) == Word(d.hdr[11], d.hdr[12])
DecSaddr(d) == SubSeq(d.hdr, 13, 16)
DecDaddr(d) == SubSeq(d.hdr, 17, 20)

-----------------------------------------------------------------------------
(* EAPOL objects.  The header structs are kept as their memory images: the  *)
(* bytes memcpy moves between object and buffer.                            *)

\* memory image of a uint16_t holding the host value v
Host16Image(v, little) ==
    IF little THEN <<Lo(v), Hi(v)>> ELSE <<Hi(v), Lo(v)>>

\* memory image of a uint16_t assigned Endian::host_to_be<uint16_t>(v): the
\* big-endian bytes of v on either host
Be16Image(v) == <<Hi(v), Lo(v)>>

\* byte i (0 the lowest) of the 64-bit size_t value n, n below 2^31
SizeTByte(n, i) ==
    IF i = 0 THEN n % 256
    ELSE IF i = 1 THEN (n \div 256) % 256
    ELSE IF i = 2 THEN (n \div 65536) % 256
    ELSE IF i = 3 THEN (n \div 16777216) % 256
    ELSE 0

\* Memory image of a uint16_t assigned Endian::host_to_be(n) with n a size_t:
\* host_to_be is instantiated for size_t, so on a little-endian host all
\* eight bytes are swapped and the assignment keeps the low 16 bits of the
\* swapped value, i.e. the two highest bytes of n; on a big-endian host the
\* value is unchanged and the assignment keeps its low 16 bits.
SizeTToBe16Image(n, little) ==
    IF little THEN <<SizeTByte(n, 7), SizeTByte(n, 6)>>
    ELSE <<Hi(n), Lo(n)>>

\* a - b in uint32_t arithmetic.  A wrapped difference is 2^32 - (b - a); the
\* model holds 2^31 - 1 for it, which every comparison made with it below
\* treats as it would the true value.
UInt32Sub(a, b) == IF a >= b THEN a - b ELSE 2147483647

\* EAPOL::EAPOL(packet_type, type): memset, version = 1
EapolHeader(packet_type, type) == <<1, packet_type, 0, 0, type>>

\* RC4EAPOL::RC4EAPOL()
RC4EAPOL_new ==
    [env |-> EapolHeader(EAPOL_KEY, RC4), hdr |-> Zeros(RC4HDR), key |-> <<>>]

\* RSNEAPOL::RSNEAPOL()
RSNEAPOL_new ==
    [env |-> EapolHeader(EAPOL_KEY, RSN), hdr |-> Zeros(RSNHDR), key |-> <<>>]

\* fields of the rc4hdr image: key_length is its first member
Rc4KeyLengthOf(hdr) == Word(hdr[1], hdr[2])
Rc4WithKeyLength(hdr, img) == [hdr EXCEPT ![1] = img[1], ![2] = img[2]]

\* fields of the rsnhdr image: the key_t bit of the key information word,
\* key_length after it, wpa_length as the last member
RsnKeyT(hdr) == (hdr[2] \div 8) % 2
RsnWithKeyT(hdr, bit) == [hdr EXCEPT ![2] = @ - RsnKeyT(hdr) * 8 + bit * 8]
RsnKeyLengthOf(hdr) == Word(hdr[3], hdr[4])
RsnWithKeyLength(hdr, img) == [hdr EXCEPT ![3] = img[1], ![4] = img[2]]
RsnWpaLengthOf(hdr) == Word(hdr[RSNHDR - 1], hdr[RSNHDR])
RsnWithWpaLength(hdr, img) ==
    [hdr EXCEPT ![RSNHDR - 1] = img[1], ![RSNHDR] = img[2]]

\* RC4EAPOL::key(new_key)
Rc4SetKey(o, new_key) == [o EXCEPT !.key = new_key]

\* RC4EAPOL::key_length(new_key_length)
Rc4SetKeyLength(o, v) ==
    [o EXCEPT !.hdr = Rc4WithKeyLength(@, Be16Image(v % 65536))]

\* RSNEAPOL::key(new_key)
RsnSetKey(o, new_key) ==
    [o EXCEPT !.key = new_key, !.hdr = RsnWithKeyT(@, 0)]

\* RSNEAPOL::rsn_information(rsn), serialized being rsn.serialize()
RsnSetInformation(o, serialized) ==
    [o EXCEPT !.key = serialized, !.hdr = RsnWithKeyT(@, 1)]

\* RC4EAPOL::header_size
Rc4HeaderSize(o) == EAPOLHDR + RC4HDR + Len(o.key)

\* RSNEAPOL::header_size
RsnHeaderSize(o) ==
    LET padding == IF RsnKeyT(o.hdr) # 0 /\ Len(o.key) # 0 THEN 2 ELSE 0
    IN EAPOLHDR + RSNHDR + Len(o.key) + padding

\* RC4EAPOL::write_body: the object's _header after the call
Rc4BodyHeader(o, little) ==
    IF Len(o.key) # 0
    THEN Rc4WithKeyLength(o.hdr, SizeTToBe16Image(Len(o.key), little))
    ELSE o.hdr

\* RC4EAPOL::write_body: the bytes written
Rc4BodyBytes(o, little) == Rc4BodyHeader(o, little) \o o.key

\* RSNEAPOL::write_body: the object's _header after the call
RsnBodyHeader(o) ==
    IF Len(o.key) # 0
    THEN IF RsnKeyT(o.hdr) = 0
         THEN RsnWithWpaLength(
                  RsnWithKeyLength(o.hdr, Be16Image(RSN_KEY_LENGTH)),
                  Be16Image(Len(o.key) % 65536))
         ELSE RsnWithWpaLength(
                  RsnWithKeyLength(o.hdr, <<0, 0>>),
                  Be16Image((Len(o.key) + 2) % 65536))
    ELSE o.hdr

\* RSNEAPOL::write_body: the bytes written
RsnBodyBytes(o) ==
    LET hdr == RsnBodyHeader(o)
        prefix == IF RsnKeyT(hdr) # 0 /\ Len(o.key) # 0
                  THEN <<DOT11_RSN, Len(o.key) % 256>> ELSE <<>>
    IN hdr \o prefix \o o.key

\* EAPOL::write_serialization: the envelope after the call; sz is
\* header_size()
EapolEnvelope(env, sz, little) ==
    IF env[3] = 0 /\ env[4] = 0
    THEN LET img == Host16Image((sz - 4) % 65536, little)
         IN [env EXCEPT ![3] = img[1], ![4] = img[2]]
    ELSE env

-----------------------------------------------------------------------------
(* EAPOL decoding *)

NoEapol == [status |-> "none", kind |-> "none", env |-> <<>>, hdr |-> <<>>,
            key |-> <<>>, tail_reads |-> 0, read_end |-> 0]
EapolError == [NoEapol EXCEPT !.status = "error"]
EapolNull == [NoEapol EXCEPT !.status = "null"]

\* read_end is the end (exclusive) of the buffer offsets a call has read;
\* WithRead records a read of the offsets below n
WithRead(r, n) == [r EXCEPT !.read_end = IF @ < n THEN n ELSE @]

\* if(total_sz == key_length()): whether the trailing bytes are the key
\* a faulty variant: at least the declared bytes remain
KeyPresent_atleast(rest, declared) == rest >= declared

KeyPresent(rest, declared) == rest = declared

\* RC4EAPOL::RC4EAPOL(buffer, total_sz), with EAPOL::EAPOL(buffer, total_sz)
Rc4Decode(b, total_sz) ==
    IF total_sz < EAPOLHDR THEN EapolError
    ELSE
      LET sz1 == UInt32Sub(total_sz, EAPOLHDR)
      IN IF sz1 < RC4HDR THEN WithRead(EapolError, EAPOLHDR)
         ELSE
           LET hdr == Slice(b, EAPOLHDR, RC4HDR)
               rest == UInt32Sub(sz1, RC4HDR)
               present == KeyPresent(rest, Rc4KeyLengthOf(hdr))
           IN [status |-> "ok", kind |-> "RC4",
               env |-> Slice(b, 0, EAPOLHDR), hdr |-> hdr,
               key |-> IF present THEN Slice(b, EAPOLHDR + RC4HDR, rest)
                       ELSE <<>>,
               tail_reads |-> IF present THEN rest ELSE 0,
               read_end |-> EAPOLHDR + RC4HDR + (IF present THEN rest ELSE 0)]

\* RSNEAPOL::RSNEAPOL(buffer, total_sz), with EAPOL::EAPOL(0x03, RSN)
RsnDecode(b, total_sz) ==
    LET sz1 == UInt32Sub(total_sz, EAPOLHDR)
    IN IF sz1 < RSNHDR THEN EapolError
       ELSE
         LET hdr == Slice(b, EAPOLHDR, RSNHDR)
             rest == UInt32Sub(sz1, RSNHDR)
             present == rest = RsnWpaLengthOf(hdr)
         IN [status |-> "ok", kind |-> "RSN",
             env |-> EapolHeader(EAPOL_KEY, RSN), hdr |-> hdr,
             key |-> IF present THEN Slice(b, EAPOLHDR + RSNHDR, rest)
                     ELSE <<>>,
             tail_reads |-> IF present THEN rest ELSE 0,
             read_end |-> EAPOLHDR + RSNHDR + (IF present THEN rest ELSE 0)]

\* EAPOL::from_bytes(buffer, total_sz)
from_bytes(b, total_sz) ==
    IF total_sz < EAPOLHDR THEN EapolError
    ELSE
      LET type == ByteAt(b, 4)
      IN IF type = RC4 THEN WithRead(Rc4Decode(b, total_sz), EAPOLHDR)
         ELSE IF type = RSN \/ type = EAPOL_WPA
         THEN WithRead(RsnDecode(b, total_sz), EAPOLHDR)
         ELSE WithRead(EapolNull, EAPOLHDR)

\* the EAPOL variables of a specification that drives the IP codec only
NoLast == [setter |-> "none", arg |-> <<>>]
EapIdle ==
    /\ le = TRUE
    /\ rc4 = RC4EAPOL_new
    /\ rsn = RSNEAPOL_new
    /\ last = NoLast
    /\ eres = NoEapol
    /\ wire = <<>>

-----------------------------------------------------------------------------
(* Inputs of the crafting driver *)

DestAddress == <<192, 168, 0, 1>>
SourceAddress == <<10, 0, 0, 2>>
DataBytes == {0, 7}
\* data blocks of 1..MaxData bytes
DataBlocks == UNION {[1..n -> DataBytes] : n \in 1..MaxData}
\* the nested units a header is crafted with: none, or an 8-byte UDP header
Inners == {NoInner, [present |-> TRUE, flag |-> IPPROTO_UDP, size |-> 8]}
CheckValues == {0, 4660}
NoSer == [total_sz |-> 0, parent |-> FALSE]
NoClone == [status |-> "none", child_at |-> 0, child_sz |-> 0, outer_sz |-> 0,
            child |-> FALSE]

Init ==
    /\ \E child \in Inners :
          ip = IPCraft(DestAddress, SourceAddress, child)
    /\ buf = <<>>
    /\ ser = NoSer
    /\ dec = NoDecode
    /\ cloned = NoClone
    /\ phase = "craft"
    /\ EapIdle

\* IP::set_option with an option of class 2 (measurement), number TIMESTAMP
SetOption ==
    /\ phase = "craft"
    /\ Len(ip.options) < MaxOpts
    /\ \E data \in DataBlocks \cup {<<>>} :
          ip' = set_option(ip, 0, 2, 4, data)
    /\ UNCHANGED <<buf, ser, dec, cloned, phase>>
    /\ UNCHANGED eapvars

\* IP::set_eol_option
SetEolOption ==
    /\ phase = "craft"
    /\ Len(ip.options) < MaxOpts
    /\ ip' = set_option(ip, 0, CONTROL, END, <<>>)
    /\ UNCHANGED <<buf, ser, dec, cloned, phase>>
    /\ UNCHANGED eapvars

\* IP::set_noop_option
SetNoopOption ==
    /\ phase = "craft"
    /\ Len(ip.options) < MaxOpts
    /\ ip' = set_option(ip, 0, CONTROL, NOOP, <<>>)
    /\ UNCHANGED <<buf, ser, dec, cloned, phase>>
    /\ UNCHANGED eapvars

\* IP::set_sec_option(data, data_len)
SetSecOption ==
    /\ phase = "craft"
    /\ Len(ip.options) < MaxOpts
    /\ \E data \in DataBlocks :
          ip' = set_option(ip, 1, CONTROL, SEC, data)
    /\ UNCHANGED <<buf, ser, dec, cloned, phase>>
    /\ UNCHANGED eapvars

\* IP::check(new_check)
SetCheck ==
    /\ phase = "craft"
    /\ \E v \in CheckValues : ip' = [ip EXCEPT !.check = v]
    /\ UNCHANGED <<buf, ser, dec, cloned, phase>>
    /\ UNCHANGED eapvars

\* IP::write_serialization into a buffer of total_sz bytes, total_sz being at
\* least header_size() (the assert) and at least what the nested unit needs.
Serialize ==
    /\ phase \in {"craft", "serialized"}
    /\ \E slack \in {0, MaxSlack}, parent \in BOOLEAN :
         LET total_sz == header_size(ip) + ip.inner.size + slack
         IN /\ total_sz >= header_size(ip)
            /\ buf' = SerializedBytes(ip, total_sz, parent)
            /\ ip' = SerializedObject(ip, total_sz)
            /\ ser' = [total_sz |-> total_sz, parent |-> parent]
    /\ phase' = "serialized"
    /\ UNCHANGED <<dec, cloned>>
    /\ UNCHANGED eapvars

\* IP(buffer, total_sz) on the buffer just written
DecodeSerialized ==
    /\ phase = "serialized"
    /\ \E innerOk \in BOOLEAN : dec' = DecodeIP(buf, Len(buf), innerOk)
    /\ phase' = "decoded"
    /\ UNCHANGED <<ip, buf, ser, cloned>>
    /\ UNCHANGED eapvars

\* the caller lets go of its buffer and of the decoded copy
Discard ==
    /\ phase \in {"serialized", "decoded"}
    /\ buf' = <<>>
    /\ ser' = NoSer
    /\ dec' = NoDecode
    /\ phase' = "craft"
    /\ UNCHANGED <<ip, cloned>>
    /\ UNCHANGED eapvars

Next ==
    \/ SetOption
    \/ SetEolOption
    \/ SetNoopOption
    \/ SetSecOption
    \/ SetCheck
    \/ Serialize
    \/ DecodeSerialized
    \/ Discard

Spec == Init /\ [][Next]_vars

-----------------------------------------------------------------------------
(* Properties of the crafted header: serialization and round trip *)

\* fields of the header in the caller's buffer
BufIhl == ByteAt(buf, 0) % 16
BufTotLen == Word(ByteAt(buf, 2), ByteAt(buf, 3))
BufCheck == Word(ByteAt(buf, 10), ByteAt(buf, 11))

HasEol(o) == \E i \in 1..Len(o.options) : o.options[i].type.number = END
HasData(o) == \E i \in 1..Len(o.options) : o.options[i].optional_data # <<>>
\* every option whose number takes a length byte carries a data block, and
\* no other option does
ValidOptions(o) ==
    \A i \in 1..Len(o.options) :
        (o.options[i].type.number \in MultiByteNumbers)
            <=> (o.options[i].optional_data # <<>>)

\* C1: round trip of the header.  A header with no nested unit, serialized
\* as the outermost unit (no parent) into a buffer of exactly header_size()
\* bytes, is decoded from those bytes without error and the decoded header
\* has the same option list, header length in words, total length, addresses
\* and checksum.  Stated for validly constructed headers (a data block on
\* exactly the options whose number takes one) without an end-of-list option,
\* whose marker ends the decoder's list by design.
C1_RoundTrip ==
    (/\ phase = "decoded"
     /\ ~ip.inner.present
     /\ ~ser.parent
     /\ ser.total_sz = header_size(ip)
     /\ ~HasEol(ip)
     /\ ValidOptions(ip))
    => /\ dec.status = "ok"
       /\ dec.options = ip.options
       /\ DecIhl(dec) = ip.ihl
       /\ DecTotLen(dec) = ip.tot_len
       /\ DecSaddr(dec) = ip.saddr
       /\ DecDaddr(dec) = ip.daddr
       /\ DecCheck(dec) = ip.check

\* C4 as stated: whatever available size the caller passes, the written
\* total length is 20 + P + N and the header length in words (20 + P) / 4.
C4_TotalLengthIsHeaderPlusNested ==
    phase = "serialized"
    => /\ BufTotLen = IPHDR + ip.padded_options_size + ip.inner.size
       /\ BufIhl = (IPHDR + ip.padded_options_size) \div 4

\* C4 amended: the written total length is the available size the caller
\* passed (modulo 2^16), hence 20 + P + N exactly when the caller passes
\* 20 + P + N; the header length in words is (20 + P) / 4 (P <= 40); the
\* object keeps both values.
C4_TotalLengthIsAvailableSize ==
    phase = "serialized"
    => /\ BufTotLen = ser.total_sz % 65536
       /\ (ser.total_sz = IPHDR + ip.padded_options_size + ip.inner.size
             => BufTotLen = IPHDR + ip.padded_options_size + ip.inner.size)
       /\ (ip.padded_options_size <= 40
             => BufIhl = (IPHDR + ip.padded_options_size) \div 4)
       /\ ip.tot_len = BufTotLen
       /\ ip.ihl = BufIhl
       /\ ((ip.options = <<>> /\ ip.inner.size = 8 /\ ser.total_sz = 28)
             => BufTotLen = 28 /\ BufIhl = 5)

\* the example of C4: no options, an 8-byte nested unit, 28 bytes available
C4_Witness ==
    /\ phase = "serialized"
    /\ ip.options = <<>>
    /\ ip.inner.present /\ ip.inner.size = 8
    /\ ser.total_sz = 28
    /\ BufTotLen = 28
    /\ BufIhl = 5

\* the one's-complement sum of the big-endian 16-bit words of a region of
\* even length, carries folded, as the checksum's receiver computes it
RECURSIVE OnesComplementAdd(_, _)
OnesComplementAdd(a, w) ==
    LET t == a + w IN IF t > 65535 THEN OnesComplementAdd(t - 65535, 0) ELSE t

RECURSIVE OnesComplementSum(_)
OnesComplementSum(r) ==
    IF Len(r) < 2 THEN 0
    ELSE OnesComplementAdd(OnesComplementSum(SubSeq(r, 3, Len(r))),
                           r[1] * 256 + r[2])

\* C5: checksum self-check.  After a serialization with a parent of a header
\* whose checksum field is zero, the checksum in the buffer is the complement
\* of the folded one's-complement sum of the header+options region taken with
\* a zero checksum field, and the sum over the region as written is 0xFFFF.
C5_ChecksumSelfCheck ==
    (phase \in {"serialized", "decoded"} /\ ser.parent /\ ip.check = 0)
    => LET region == SubSeq(buf, 1, IPHDR + ip.padded_options_size)
           zeroed == [region EXCEPT ![11] = 0, ![12] = 0]
       IN /\ BufCheck = 65535 - OnesComplementSum(zeroed)
          /\ OnesComplementSum(region) = 65535

C5_Witness ==
    /\ phase = "serialized"
    /\ ser.parent
    /\ ip.check = 0
    /\ HasData(ip)
    /\ ip.padded_options_size > ip.options_size
    /\ BufCheck # 0
    /\ OnesComplementSum(SubSeq(buf, 1, IPHDR + ip.padded_options_size)) = 65535

-----------------------------------------------------------------------------
(* Header length of the object: Spec *)

\* n rounded up to a multiple of 4
RoundUp4(n) == ((n + 3) \div 4) * 4

\* C11: header-length invariant.  In every state of the crafted object (from
\* its construction on, through option appends, field setters and
\* serializations) and of a successfully decoded object, the header length
\* in words times 4 is at least 20 and equals 20 plus the padded option byte
\* count, and the padded count of the crafted object is its raw option byte
\* count rounded up to a multiple of 4.
C11_HeaderLengthInvariant ==
    /\ ip.ihl * 4 >= IPHDR
    /\ ip.ihl * 4 = IPHDR + ip.padded_options_size
    /\ ip.padded_options_size = RoundUp4(ip.options_size)
    /\ (dec.status = "ok"
          => /\ DecIhl(dec) * 4 >= IPHDR
             /\ DecIhl(dec) * 4 = IPHDR + dec.padded_options_size)

-----------------------------------------------------------------------------
(* IP::clone_packet(ptr, total_sz) *)

Min(a, b) == IF a < b THEN a ELSE b

\* childOk: whether PDU::clone_inner_pdu returns a unit for the bytes it is
\* given; innerOk: as for the constructor.  status "null" is the return of 0,
\* "error" an exception of the constructor leaving clone_packet.
clone_packet(b, total_sz, childOk, innerOk) ==
    IF total_sz < IPHDR THEN [NoClone EXCEPT !.status = "null"]
    ELSE
      LET sz == (ByteAt(b, 0) % 16) * 4
          tot_len == Word(ByteAt(b, 2), ByteAt(b, 3))
          hasChild == total_sz > sz
          outer_sz == Min(total_sz, tot_len * 4)
          outer == DecodeIP(b, outer_sz, innerOk)
      IN IF total_sz < sz THEN [NoClone EXCEPT !.status = "null"]
         ELSE IF hasChild /\ ~childOk THEN [NoClone EXCEPT !.status = "null"]
         ELSE [status |-> IF outer.status = "ok" THEN "ok" ELSE "error",
               child_at |-> IF hasChild THEN IPHDR ELSE 0,
               child_sz |-> IF hasChild THEN total_sz - IPHDR ELSE 0,
               outer_sz |-> outer_sz,
               child |-> hasChild]

-----------------------------------------------------------------------------
(* Decoding of arbitrary buffers *)

\* most bytes of an input buffer after the 20-byte fixed header
MaxTail == 5

TailBytes == {0, 1, 3, 30}
Tails == UNION {[1..n -> TailBytes] : n \in 0..MaxTail}
\* header-length-in-words values of the inputs
IhlValues == {4, 5, 6, 7}
\* total-length values of the inputs
TotLenValues == {5, 24}
\* sizes of the inputs too short for the fixed header
ShortSizes == {0, 19}

InputHeader(ihl, tot_len) ==
    HeaderBytes([init_ip_fields EXCEPT !.ihl = ihl, !.tot_len = tot_len,
                                       !.protocol = IPPROTO_TCP,
                                       !.saddr = SourceAddress,
                                       !.daddr = DestAddress])

InitDecode ==
    /\ \E ihl \in IhlValues, tot_len \in TotLenValues :
          \/ \E tail \in Tails : buf = InputHeader(ihl, tot_len) \o tail
          \/ \E n \in ShortSizes : buf = SubSeq(InputHeader(ihl, tot_len), 1, n)
    /\ ip = init_ip_fields
    /\ ser = NoSer
    /\ dec = NoDecode
    /\ cloned = NoClone
    /\ phase = "input"
    /\ EapIdle

\* IP(buffer, total_sz) on the input
DecodeBuffer ==
    /\ phase = "input"
    /\ \E innerOk \in BOOLEAN : dec' = DecodeIP(buf, Len(buf), innerOk)
    /\ phase' = "decoded"
    /\ UNCHANGED <<ip, buf, ser, cloned>>
    /\ UNCHANGED eapvars

\* IP::clone_packet(ptr, total_sz) on the input
ClonePacket ==
    /\ phase = "input"
    /\ \E childOk \in BOOLEAN, innerOk \in BOOLEAN :
          cloned' = clone_packet(buf, Len(buf), childOk, innerOk)
    /\ phase' = "cloned"
    /\ UNCHANGED <<ip, buf, ser, dec>>
    /\ UNCHANGED eapvars

NextDecode ==
    \/ DecodeBuffer
    \/ ClonePacket

SpecDecode == InitDecode /\ [][NextDecode]_vars

-----------------------------------------------------------------------------
(* Properties of the decoder *)

\* header byte length the input declares
BufHeadLen == BufIhl * 4

\* C2: decode fails fast.  A buffer shorter than 20 bytes, or declaring a
\* header shorter than 20 bytes, or declaring a header longer than the
\* buffer, ends the constructor in an error: no header, no option list and
\* no nested unit come out of it.
C2_DecodeFailsFast ==
    phase = "decoded"
    => ((\/ Len(buf) < IPHDR
         \/ BufHeadLen < IPHDR
         \/ BufHeadLen > Len(buf))
        => /\ dec.status = "error"
           /\ dec.hdr = <<>>
           /\ dec.options = <<>>
           /\ ~dec.inner.present)

\* a full fixed header that declares 16 bytes of header
C2_Witness ==
    /\ phase = "decoded"
    /\ Len(buf) > IPHDR
    /\ BufHeadLen = 16
    /\ dec.status = "error"

\* The decoded options laid over the buffer from offset pos: each option's
\* type byte is the byte at its offset; an option whose number takes a
\* length has its length byte before the boundary end, that byte is not 0,
\* the length - 1 bytes counted from the length byte end at or before the
\* boundary, and its data block is exactly those bytes.
RECURSIVE OptionsWithinHeader(_, _, _, _)
OptionsWithinHeader(b, opts, pos, end) ==
    IF opts = <<>> THEN TRUE
    ELSE
      LET o == Head(opts)
          lenb == ByteAt(b, pos + 1)
      IN /\ pos < end
         /\ TypeByte(o.type) = ByteAt(b, pos)
         /\ IF o.type.number \in MultiByteNumbers
            THEN /\ pos + 1 < end
                 /\ lenb # 0
                 /\ (lenb - 1) <= end - (pos + 1)
                 /\ Len(o.optional_data) = lenb - 1
                 /\ o.optional_data = Slice(b, pos + 1, lenb - 1)
            ELSE o.optional_data = <<>>
         /\ pos + 1 + Len(o.optional_data) <= end
         /\ OptionsWithinHeader(b, Tail(opts), pos + 1 + Len(o.optional_data), end)

\* Whether the option list starting at offset pos holds, before the
\* end-of-list marker and the boundary end, an option whose number takes a
\* length and whose length byte is missing, is 0, or declares length - 1
\* bytes (counted from the length byte) that pass the boundary.
RECURSIVE MalformedOption(_, _, _)
MalformedOption(b, pos, end) ==
    IF pos >= end \/ ByteAt(b, pos) = 0 THEN FALSE
    ELSE IF (ByteAt(b, pos) % 32) \in MultiByteNumbers
    THEN \/ pos + 1 >= end
         \/ ByteAt(b, pos + 1) = 0
         \/ ByteAt(b, pos + 1) - 1 > end - (pos + 1)
         \/ MalformedOption(b, pos + ByteAt(b, pos + 1), end)
    ELSE MalformedOption(b, pos + 1, end)

\* C3: option bounds.  Parsing options reads only offsets from 20 up to, not
\* including, the header boundary, whether the decode succeeds or not; a
\* buffer with an option whose length byte is missing, is zero or declares
\* more bytes than remain before the boundary (remaining counted from the
\* length byte) ends the decode in an error; and every option of a decode
\* that succeeds lies complete within the header.
C3_OptionBounds ==
    (phase = "decoded" /\ Len(buf) >= IPHDR
       /\ BufHeadLen >= IPHDR /\ BufHeadLen <= Len(buf))
    => /\ \A r \in dec.reads : r >= IPHDR /\ r < BufHeadLen
       /\ (MalformedOption(buf, IPHDR, BufHeadLen) => dec.status = "error")
       /\ (dec.status = "ok"
             => OptionsWithinHeader(buf, dec.options, IPHDR, BufHeadLen))

\* an LSSR option whose length byte declares 29 data bytes with 3 remaining
C3_Witness ==
    /\ phase = "decoded"
    /\ Len(buf) >= 24
    /\ BufHeadLen = 24
    /\ ByteAt(buf, 20) = 3
    /\ ByteAt(buf, 21) = 30
    /\ MalformedOption(buf, IPHDR, BufHeadLen)
    /\ dec.status = "error"
    /\ dec.reads = {20, 21}

\* C10 as stated: the nested unit is decoded from the bytes after the full
\* header, and the outer header from min(B, T) bytes.  Stated for inputs whose
\* declared total length T covers the header.
C10_CloneBoundedByDeclaredLength ==
    (phase = "cloned" /\ cloned.status = "ok" /\ BufTotLen >= BufHeadLen)
    => /\ cloned.outer_sz = Min(Len(buf), BufTotLen)
       /\ (cloned.child => /\ cloned.child_at = BufHeadLen
                           /\ cloned.child_sz = Len(buf) - BufHeadLen)

-----------------------------------------------------------------------------
(* Crafting and serializing the EAPOL variants *)

KeyBytes == {17, 34}
\* raw keys of 0..MaxKey bytes
Keys == UNION {[1..n -> KeyBytes] : n \in 0..MaxKey}
\* serialized RSN information elements, of 1..MaxKey bytes
Elements == UNION {[1..n -> KeyBytes] : n \in 1..MaxKey}
\* arguments of RC4EAPOL::key_length
KeyLengthValues == {0, 5}

\* the IP variables of a specification that drives the EAPOL codec only
IpIdle ==
    /\ ip = init_ip_fields
    /\ ser = NoSer
    /\ dec = NoDecode
    /\ cloned = NoClone

InitRSN ==
    /\ le \in BOOLEAN
    /\ rsn = RSNEAPOL_new
    /\ rc4 = RC4EAPOL_new
    /\ last = NoLast
    /\ eres = NoEapol
    /\ wire = <<>>
    /\ buf = <<>>
    /\ phase = "craft"
    /\ IpIdle

\* RSNEAPOL::key(new_key)
RsnKey ==
    /\ phase = "craft"
    /\ \E k \in Keys :
          /\ rsn' = RsnSetKey(rsn, k)
          /\ last' = [setter |-> "key", arg |-> k]
    /\ UNCHANGED <<buf, phase, le, wire, rc4, eres>>
    /\ UNCHANGED ipvars

\* RSNEAPOL::rsn_information(rsn)
RsnInformation ==
    /\ phase = "craft"
    /\ \E e \in Elements :
          /\ rsn' = RsnSetInformation(rsn, e)
          /\ last' = [setter |-> "rsn_information", arg |-> e]
    /\ UNCHANGED <<buf, phase, le, wire, rc4, eres>>
    /\ UNCHANGED ipvars

\* EAPOL::write_serialization on the RSNEAPOL object, into a buffer of
\* header_size() bytes
RsnSerialize ==
    /\ phase \in {"craft", "serialized"}
    /\ LET sz == RsnHeaderSize(rsn)
           env == EapolEnvelope(rsn.env, sz, le)
       IN /\ buf' = env \o RsnBodyBytes(rsn)
          /\ rsn' = [rsn EXCEPT !.env = env, !.hdr = RsnBodyHeader(rsn)]
    /\ phase' = "serialized"
    /\ UNCHANGED <<le, wire, rc4, last, eres>>
    /\ UNCHANGED ipvars

\* the caller lets go of its buffer
EapolDiscard ==
    /\ phase \in {"serialized", "decoded"}
    /\ buf' = <<>>
    /\ eres' = NoEapol
    /\ phase' = "craft"
    /\ UNCHANGED <<le, wire, rc4, rsn, last>>
    /\ UNCHANGED ipvars

NextRSN ==
    \/ RsnKey
    \/ RsnInformation
    \/ RsnSerialize
    \/ EapolDiscard

SpecRSN == InitRSN /\ [][NextRSN]_vars

InitRC4 == InitRSN

\* RC4EAPOL::key(new_key)
Rc4Key ==
    /\ phase = "craft"
    /\ \E k \in Keys : rc4' = Rc4SetKey(rc4, k)
    /\ UNCHANGED <<buf, phase, le, wire, rsn, last, eres>>
    /\ UNCHANGED ipvars

\* RC4EAPOL::key_length(new_key_length)
Rc4KeyLength ==
    /\ phase = "craft"
    /\ \E v \in KeyLengthValues : rc4' = Rc4SetKeyLength(rc4, v)
    /\ UNCHANGED <<buf, phase, le, wire, rsn, last, eres>>
    /\ UNCHANGED ipvars

\* EAPOL::write_serialization on the RC4EAPOL object, into a buffer of
\* header_size() bytes
Rc4Serialize ==
    /\ phase \in {"craft", "serialized"}
    /\ LET sz == Rc4HeaderSize(rc4)
           env == EapolEnvelope(rc4.env, sz, le)
       IN /\ buf' = env \o Rc4BodyBytes(rc4, le)
          /\ rc4' = [rc4 EXCEPT !.env = env, !.hdr = Rc4BodyHeader(rc4, le)]
    /\ phase' = "serialized"
    /\ UNCHANGED <<le, wire, rsn, last, eres>>
    /\ UNCHANGED ipvars

\* RC4EAPOL(buffer, total_sz) on the buffer just written
Rc4DecodeSerialized ==
    /\ phase = "serialized"
    /\ eres' = Rc4Decode(buf, Len(buf))
    /\ phase' = "decoded"
    /\ UNCHANGED <<buf, le, wire, rc4, rsn, last>>
    /\ UNCHANGED ipvars

NextRC4 ==
    \/ Rc4Key
    \/ Rc4KeyLength
    \/ Rc4Serialize
    \/ Rc4DecodeSerialized
    \/ EapolDiscard

SpecRC4 == InitRC4 /\ [][NextRC4]_vars

-----------------------------------------------------------------------------
(* Decoding EAPOL buffers *)

\* type bytes of the inputs: the three the dispatch knows, and two others
EapolTypes == {RC4, RSN, EAPOL_WPA, 0, 7}
\* values of the length field that declares the trailing bytes
DeclaredLengths == {0, 1, 2}
Trailers == UNION {[1..n -> KeyBytes] : n \in 0..MaxKey}
\* sizes the inputs are cut to
CutSizes == {0, 4, 5, 47, 48, 98}

\* an envelope with the given type byte, a fixed body of the variant the type
\* names (the RC4 body for a type the dispatch does not know) whose length
\* field declares `declared` trailing bytes, and the trailing bytes
EapolInput(type, declared, trailer) ==
    <<1, EAPOL_KEY, 0, 0, type>>
    \o (IF type \in {RSN, EAPOL_WPA}
        THEN RsnWithWpaLength(Zeros(RSNHDR), Be16Image(declared))
        ELSE Rc4WithKeyLength(Zeros(RC4HDR), Be16Image(declared)))
    \o trailer

InitEapolDecode ==
    /\ \E type \in EapolTypes, declared \in DeclaredLengths, trailer \in Trailers :
          LET whole == EapolInput(type, declared, trailer)
          IN \/ buf = whole
             \/ \E n \in CutSizes : n < Len(whole) /\ buf = SubSeq(whole, 1, n)
    /\ le \in BOOLEAN
    /\ rsn = RSNEAPOL_new
    /\ rc4 = RC4EAPOL_new
    /\ last = NoLast
    /\ eres = NoEapol
    /\ wire = <<>>
    /\ phase = "input"
    /\ IpIdle

\* RC4EAPOL(buffer, total_sz) on the input
Rc4DecodeBuffer ==
    /\ phase = "input"
    /\ eres' = Rc4Decode(buf, Len(buf))
    /\ phase' = "rc4decoded"
    /\ UNCHANGED <<buf, le, wire, rc4, rsn, last>>
    /\ UNCHANGED ipvars

\* EAPOL::from_bytes(buffer, total_sz) on the input
FromBytes ==
    /\ phase = "input"
    /\ eres' = from_bytes(buf, Len(buf))
    /\ phase' = "dispatched"
    /\ UNCHANGED <<buf, le, wire, rc4, rsn, last>>
    /\ UNCHANGED ipvars

\* what the memory after the end of the input buffer may hold
GarbageBytes == {0, 170}

\* the memory the input buffer lies in: its bytes, then n bytes g
Memory(b, g, n) == b \o [i \in 1..n |-> g]

\* a call that read past the end of its buffer and was stopped by the
\* platform (a memory fault)
EapolFault(r) == [NoEapol EXCEPT !.status = "fault", !.read_end = r.read_end]

\* RSNEAPOL(buffer, total_sz) on the input.  A read past the end of the
\* buffer is undefined: it either faults or yields whatever the memory holds.
RsnDecodeBuffer ==
    /\ phase = "input"
    /\ \E g \in GarbageBytes, fault \in BOOLEAN :
         LET r == RsnDecode(Memory(buf, g, EAPOLHDR + RSNHDR), Len(buf))
         IN eres' = IF r.read_end > Len(buf) /\ fault THEN EapolFault(r)
                    ELSE r
    /\ phase' = "rsndecoded"
    /\ UNCHANGED <<buf, le, wire, rc4, rsn, last>>
    /\ UNCHANGED ipvars

NextEapolDecode ==
    \/ Rc4DecodeBuffer
    \/ RsnDecodeBuffer
    \/ FromBytes

SpecEapolDecode == InitEapolDecode /\ [][NextEapolDecode]_vars

-----------------------------------------------------------------------------
(* Properties of the EAPOL codec *)

\* the serialized RSN frame: fixed body and what follows it
RsnBufBody == SubSeq(buf, EAPOLHDR + 1, EAPOLHDR + RSNHDR)
RsnBufTrailer == SubSeq(buf, EAPOLHDR + RSNHDR + 1, Len(buf))

\* C6 as stated: after a serialization, with key(k) the last setter called
\* the frame holds WPA-length = K and the K key bytes right after the fixed
\* body (and key-length = 32: stated here for K > 0); with rsn_information(e)
\* the last setter called it holds key-length = 0, WPA-length = S + 2 and the
\* element tag, S and the S element bytes right after the fixed body.
C6_RsnSerialization ==
    phase = "serialized"
    => /\ (last.setter = "key"
             => /\ RsnWpaLengthOf(RsnBufBody) = Len(last.arg)
                /\ (Len(last.arg) > 0
                      => RsnKeyLengthOf(RsnBufBody) = RSN_KEY_LENGTH)
                /\ RsnBufTrailer = last.arg)
       /\ (last.setter = "rsn_information"
             => /\ RsnKeyLengthOf(RsnBufBody) = 0
                /\ RsnWpaLengthOf(RsnBufBody) = Len(last.arg) + 2
                /\ RsnBufTrailer = <<DOT11_RSN, Len(last.arg)>> \o last.arg)

\* C7 as stated: a serialized RC4 frame with a key of n > 0 bytes holds n,
\* big-endian, in its key-length field, and decoding the frame recovers the
\* key.
C7_Rc4KeyLengthWritten ==
    /\ (phase = "serialized" /\ Len(rc4.key) > 0)
          => Word(ByteAt(buf, EAPOLHDR), ByteAt(buf, EAPOLHDR + 1)) = Len(rc4.key)
    /\ (phase = "decoded" /\ Len(rc4.key) > 0)
          => eres.status = "ok" /\ eres.key = rc4.key

\* the RC4 input: what follows the fixed body, and the declared key length
Rc4BufRest == Len(buf) - (EAPOLHDR + RC4HDR)
Rc4BufDeclared == Word(ByteAt(buf, EAPOLHDR), ByteAt(buf, EAPOLHDR + 1))
Rc4Decoded ==
    \/ phase = "rc4decoded"
    \/ phase = "dispatched" /\ Len(buf) >= EAPOLHDR /\ ByteAt(buf, 4) = RC4

\* C8: RC4 decode of the trailing key.  On a buffer holding at least the
\* envelope and the fixed body the decode succeeds; the key is all the bytes
\* after the fixed body when their number equals the declared key length,
\* and is empty, with none of those bytes read, when it does not.
C8_Rc4TrailingKey ==
    (Rc4Decoded /\ Len(buf) >= EAPOLHDR + RC4HDR)
    => /\ eres.status = "ok"
       /\ eres.kind = "RC4"
       /\ (Rc4BufRest = Rc4BufDeclared
             => /\ eres.key = SubSeq(buf, EAPOLHDR + RC4HDR + 1, Len(buf))
                /\ eres.tail_reads = Rc4BufRest)
       /\ (Rc4BufRest # Rc4BufDeclared
             => /\ eres.key = <<>>
                /\ eres.tail_reads = 0)

\* one byte more after the fixed body than the key length declares
C8_Witness ==
    /\ phase = "rc4decoded"
    /\ Len(buf) >= EAPOLHDR + RC4HDR
    /\ Rc4BufDeclared = 1
    /\ Rc4BufRest = 2
    /\ eres.status = "ok"
    /\ eres.key = <<>>

\* C9 as stated: from_bytes gives a Stream-Cipher variant, a
\* Robust-Security-Network variant or a decode error, and a decode error for
\* a type byte that names no variant; it never gives a null result.
C9_DispatchNeverNull ==
    phase = "dispatched"
    => /\ eres.status \in {"ok", "error"}
       /\ (eres.status = "ok" => eres.kind \in {"RC4", "RSN"})
       /\ ((Len(buf) >= EAPOLHDR /\ ByteAt(buf, 4) \notin {RC4, RSN, EAPOL_WPA})
             => eres.status = "error")

\* the fixed size a buffer needs for the variant its type byte names
RequiredSize(type) ==
    IF type = RC4 THEN EAPOLHDR + RC4HDR ELSE EAPOLHDR + RSNHDR

\* C12: truncated buffers are fatal.  Decoding a buffer shorter than the
\* envelope plus the variant's fixed body, through from_bytes (the variant
\* being the one the type byte names) or through the buffer constructor of
\* either variant, ends in a decode error and reads no byte past the end of
\* the buffer; this includes sizes below the envelope's.
C12_TruncatedIsFatal ==
    /\ (phase = "rc4decoded" /\ Len(buf) < EAPOLHDR + RC4HDR)
         => (eres.status = "error" /\ eres.read_end <= Len(buf))
    /\ (phase = "rsndecoded" /\ Len(buf) < EAPOLHDR + RSNHDR)
         => (eres.status = "error" /\ eres.read_end <= Len(buf))
    /\ (phase = "dispatched"
          /\ \/ Len(buf) < EAPOLHDR
             \/ /\ ByteAt(buf, 4) \in {RC4, RSN, EAPOL_WPA}
                /\ Len(buf) < RequiredSize(ByteAt(buf, 4)))
         => (eres.status = "error" /\ eres.read_end <= Len(buf))

-----------------------------------------------------------------------------
(* Decoding a received RSN frame and serializing it again *)

\* how many times a frame that grows is decoded and serialized again
MaxCycles == 2

Versions == {1, 2}
RsnTypes == {RSN, EAPOL_WPA}

\* A well-formed frame: the envelope with the given version and type byte and
\* the body length in the byte order little says, then the fixed body and
\* the trailing bytes as RSNEAPOL::write_body lays them out for the object o
\* (the raw key, or the element id, the element length and the element).
RsnFrame(version, type, o, little) ==
    EapolEnvelope(<<version, EAPOL_KEY, 0, 0, type>>, RsnHeaderSize(o), little)
    \o RsnBodyBytes(o)

\* the RSNEAPOL object a successful decode constructs
RsnObject(r) == [env |-> r.env, hdr |-> r.hdr, key |-> r.key]

InitRoundTrip ==
    /\ \E version \in Versions, type \in RsnTypes, k \in Keys,
          element \in BOOLEAN, little \in BOOLEAN :
          wire = RsnFrame(version, type,
                          IF element THEN RsnSetInformation(RSNEAPOL_new, k)
                          ELSE RsnSetKey(RSNEAPOL_new, k),
                          little)
    /\ buf = wire
    /\ le \in BOOLEAN
    /\ rsn = RSNEAPOL_new
    /\ rc4 = RC4EAPOL_new
    /\ last = NoLast
    /\ eres = NoEapol
    /\ phase = "input"
    /\ IpIdle

\* RSNEAPOL(buffer, total_sz) on the frame received or just serialized
RsnDecodeFrame ==
    /\ phase \in {"input", "reserialized"}
    /\ Len(buf) < Len(wire) + 2 * MaxCycles
    /\ LET r == RsnDecode(buf, Len(buf))
       IN /\ eres' = r
          /\ rsn' = IF r.status = "ok" THEN RsnObject(r) ELSE rsn
    /\ phase' = "framedecoded"
    /\ UNCHANGED <<buf, le, wire, rc4, last>>
    /\ UNCHANGED ipvars

\* EAPOL::write_serialization on the decoded object, into a buffer of
\* header_size() bytes
RsnReserialize ==
    /\ phase = "framedecoded"
    /\ eres.status = "ok"
    /\ LET sz == RsnHeaderSize(rsn)
           env == EapolEnvelope(rsn.env, sz, le)
       IN /\ buf' = env \o RsnBodyBytes(rsn)
          /\ rsn' = [rsn EXCEPT !.env = env, !.hdr = RsnBodyHeader(rsn)]
    /\ phase' = "reserialized"
    /\ UNCHANGED <<le, wire, rc4, last, eres>>
    /\ UNCHANGED ipvars

NextRoundTrip ==
    \/ RsnDecodeFrame
    \/ RsnReserialize

SpecRoundTrip == InitRoundTrip /\ [][NextRoundTrip]_vars

\* the bytes of the received frame after its fixed body are as many as its
\* WPA-length field says
WireWellFormed ==
    /\ Len(wire) >= EAPOLHDR + RSNHDR
    /\ Len(wire) - (EAPOLHDR + RSNHDR)
         = RsnWpaLengthOf(SubSeq(wire, EAPOLHDR + 1, EAPOLHDR + RSNHDR))

\* C13: decode-then-serialize is the identity on well-formed RSN frames.
\* For a received frame whose trailing bytes are as many as its WPA-length
\* field says, in raw-key or in information-element form, every
\* serialization of the decoded unit gives back the received frame: the same
\* envelope, fixed body, trailing bytes and size, however many times the
\* frame is decoded and serialized again.
C13_RsnDecodeSerializeIdentity ==
    (phase = "reserialized" /\ WireWellFormed)
    => /\ Len(buf) = Len(wire)
       /\ buf = wire

====
